---- MODULE Spec2Model ----
(***************************************************************************)
(* Model of the lsd_resting preprocessing workflow                         *)
(* (src/lsd_lemon/lsd_resting.py) and of the MaskSurface interface         *)
(* (src/clustering/mask_surface.py).                                       *)
(*                                                                         *)
(* The workflow part models create_lsd_resting: the graph it declares      *)
(* (nodes, static inputs, connections), the expansion of the scan_id       *)
(* iterable into per-scan clones, and the run of the expanded graph.       *)
(* The masking part models MaskSurface._run_interface statement by         *)
(* statement on a flat buffer, and MaskSurface._list_outputs.              *)
(***************************************************************************)
EXTENDS Integers, Sequences, FiniteSets, TLC

VARIABLES
    \* ---- workflow (create_lsd_resting) ----
    phase,      \* "build" | "expand" | "run" | "done"
    scans,      \* the scans argument: the values of the scan_id iterable
    nconn,      \* the number of entries of the connection list made so far
    upstream,   \* the expanded graph: clone -> the clones it is connected from
    dependents, \* the expanded graph: clone -> the clones that transitively consume from it
    status,     \* clone -> "Pending" | "Running" | "Completed" | "Failed" | "Blocked"
    started,    \* the clones that were ever started
    consumed,   \* clone -> the clones whose outputs it read when it started
    outputs,    \* clone -> output port -> produced value
    sinkFiles,  \* the files written below out_dir: [path, scan]
    \* ---- MaskSurface ----
    mpc,        \* position inside _run_interface / _list_outputs
    lhvertices, \* the vertex table of the left hemisphere (variables.lhvertices)
    rhvertices, \* the vertex table of the right hemisphere (variables.rhvertices)
    hemi,       \* self.inputs.hemi
    shape,      \* data.shape of the loaded image, <<X, Y, Z, T>> (origdata)
    order,      \* memory layout of the loaded array: "C" (row-major) | "F" (column-major)
    data,       \* [shape, fortran]: the array data, as far as the code uses it
    mask,       \* [shape, fortran, buf]: the array mask, buf its buffer in memory order
    chosen,     \* chosenvertices, a sequence of indices; Unbound when never assigned
    vi,         \* the number of vertices the for loop has gone through
    merror,     \* the exception that ended _run_interface, "none" when none
    files,      \* the files in the working directory: [name, image]
    moutputs    \* the dictionary _list_outputs returned

wfVars == <<phase, scans, nconn, upstream, dependents, status, started, consumed, outputs, sinkFiles>>
maskVars == <<mpc, lhvertices, rhvertices, hemi, shape, order, data, mask, chosen, vi,
              merror, files, moutputs>>
vars == <<wfVars, maskVars>>

-----------------------------------------------------------------------------
(* Bounds *)

\* the largest number of scan ids in the scans argument
MaxScans == 2
\* the number of clones the executor runs at the same time
MaxWorkers == 2
\* the largest extent of each axis of the volume given to MaskSurface
MaxX == 2
MaxY == 2
MaxZ == 2
MaxT == 2
\* the largest vertex index in the vertex tables
MaxVertex == 3

-----------------------------------------------------------------------------
(* The declared graph *)

Undefined == "<undefined>"
NoIter == "<no iteration>"

\* the nodes create_lsd_resting declares (moco, fmap_coreg, transform_ts and
\* denoise are sub-workflows, addressed through inputnode./outputnode. ports)
Nodes ==
    { "scan_infosource", "fmap_infosource", "selectfiles", "remove_vol",
      "moco", "fmap_coreg", "transform_ts", "denoise", "sink" }

IterSource == "scan_infosource"

Conn(s, sp, d, dp) == [src |-> s, srcPort |-> sp, dst |-> d, dstPort |-> dp]

\* lines 124-128: the two info sources, file selection, the sink's container
ConnInfo ==
    << Conn("scan_infosource", "scan_id", "selectfiles", "scan_id"),
       Conn("scan_infosource", "scan_id", "fmap_infosource", "scan_id"),
       Conn("fmap_infosource", "fmap_id", "selectfiles", "fmap_id"),
       Conn("fmap_infosource", "pe_dir", "fmap_coreg", "inputnode.pe_dir"),
       Conn("scan_infosource", "scan_id", "sink", "container") >>

\* lines 129-146: the preprocessing chain
ConnPreproc ==
    << Conn("selectfiles", "func", "remove_vol", "in_file"),
       Conn("remove_vol", "out_file", "moco", "inputnode.epi"),
       Conn("selectfiles", "fmap_phase", "fmap_coreg", "inputnode.phase"),
       Conn("selectfiles", "fmap_mag", "fmap_coreg", "inputnode.mag"),
       Conn("selectfiles", "anat_head", "fmap_coreg", "inputnode.anat_head"),
       Conn("selectfiles", "anat_brain", "fmap_coreg", "inputnode.anat_brain"),
       Conn("moco", "outputnode.epi_mean", "fmap_coreg", "inputnode.epi_mean"),
       Conn("remove_vol", "out_file", "transform_ts", "inputnode.orig_ts"),
       Conn("selectfiles", "anat_head", "transform_ts", "inputnode.anat_head"),
       Conn("moco", "outputnode.mat_moco", "transform_ts", "inputnode.mat_moco"),
       Conn("fmap_coreg", "outputnode.fmap_fullwarp", "transform_ts", "inputnode.fullwarp"),
       Conn("selectfiles", "func_mask", "denoise", "inputnode.brain_mask"),
       Conn("selectfiles", "anat_brain", "denoise", "inputnode.anat_brain"),
       Conn("fmap_coreg", "outputnode.epi2anat_dat", "denoise", "inputnode.epi2anat_dat"),
       Conn("fmap_coreg", "outputnode.unwarped_mean_epi2fmap", "denoise", "inputnode.unwarped_mean"),
       Conn("moco", "outputnode.par_moco", "denoise", "inputnode.moco_par"),
       Conn("transform_ts", "outputnode.trans_ts", "denoise", "inputnode.epi_coreg") >>

\* lines 147-185: what the sink stores (the commented-out entries are absent)
ConnSink ==
    << Conn("moco", "outputnode.par_moco", "sink", "realign.@par"),
       Conn("moco", "outputnode.rms_moco", "sink", "realign.@rms"),
       Conn("moco", "outputnode.mat_moco", "sink", "realign.MAT.@mat"),
       Conn("moco", "outputnode.epi_mean", "sink", "realign.@mean"),
       Conn("moco", "outputnode.rotplot", "sink", "realign.plots.@rotplot"),
       Conn("moco", "outputnode.transplot", "sink", "realign.plots.@transplot"),
       Conn("moco", "outputnode.dispplots", "sink", "realign.plots.@dispplots"),
       Conn("moco", "outputnode.tsnr_file", "sink", "realign.@tsnr"),
       Conn("fmap_coreg", "outputnode.fmap", "sink", "coregister.transforms2anat.@fmap"),
       Conn("fmap_coreg", "outputnode.unwarped_mean_epi2fmap", "sink", "coregister.@unwarped_mean_epi2fmap"),
       Conn("fmap_coreg", "outputnode.epi2fmap", "sink", "coregister.@epi2fmap"),
       Conn("fmap_coreg", "outputnode.fmap_fullwarp", "sink", "coregister.transforms2anat.@fmap_fullwarp"),
       Conn("fmap_coreg", "outputnode.epi2anat", "sink", "coregister.@epi2anat"),
       Conn("fmap_coreg", "outputnode.epi2anat_mat", "sink", "coregister.transforms2anat.@epi2anat_mat"),
       Conn("fmap_coreg", "outputnode.epi2anat_dat", "sink", "coregister.transforms2anat.@epi2anat_dat"),
       Conn("fmap_coreg", "outputnode.epi2anat_mincost", "sink", "coregister.@epi2anat_mincost"),
       Conn("transform_ts", "outputnode.trans_ts_mean", "sink", "coregister.@full_transform_mean"),
       Conn("transform_ts", "outputnode.resamp_brain", "sink", "coregister.@resamp_brain"),
       Conn("denoise", "outputnode.wmcsf_mask", "sink", "denoise.mask.@wmcsf_masks"),
       Conn("denoise", "outputnode.combined_motion", "sink", "denoise.artefact.@combined_motion"),
       Conn("denoise", "outputnode.outlier_files", "sink", "denoise.artefact.@outlier"),
       Conn("denoise", "outputnode.intensity_files", "sink", "denoise.artefact.@intensity"),
       Conn("denoise", "outputnode.outlier_stats", "sink", "denoise.artefact.@outlierstats"),
       Conn("denoise", "outputnode.outlier_plots", "sink", "denoise.artefact.@outlierplots"),
       Conn("denoise", "outputnode.mc_regressor", "sink", "denoise.regress.@mc_regressor"),
       Conn("denoise", "outputnode.comp_regressor", "sink", "denoise.regress.@comp_regressor"),
       Conn("denoise", "outputnode.mc_F", "sink", "denoise.regress.@mc_F"),
       Conn("denoise", "outputnode.mc_pF", "sink", "denoise.regress.@mc_pF"),
       Conn("denoise", "outputnode.comp_F", "sink", "denoise.regress.@comp_F"),
       Conn("denoise", "outputnode.comp_pF", "sink", "denoise.regress.@comp_pF"),
       Conn("denoise", "outputnode.brain_mask_resamp", "sink", "denoise.mask.@brain_resamp"),
       Conn("denoise", "outputnode.brain_mask2epi", "sink", "denoise.mask.@brain_mask2epi"),
       Conn("denoise", "outputnode.normalized_file", "sink", "@normalized") >>

\* The connection list as a slip in lines 124-146 would leave it: the sink's
\* container not connected, fmap_infosource not connected to the iterable,
\* the moco -> fmap_coreg edge forgotten, an input port connected twice.
ConnectionsNoContainer ==
    SelectSeq(ConnInfo, LAMBDA c : c.dst # "sink") \o ConnPreproc \o ConnSink

ConnectionsNoFmapScan ==
    SelectSeq(ConnInfo, LAMBDA c : c.dst # "fmap_infosource") \o ConnPreproc \o ConnSink

ConnectionsNoMocoCoreg ==
    ConnInfo \o SelectSeq(ConnPreproc, LAMBDA c : ~(c.src = "moco" /\ c.dst = "fmap_coreg"))
             \o ConnSink

ConnectionsTwiceBound ==
    ConnInfo \o ConnPreproc
             \o << Conn("selectfiles", "anat_head", "transform_ts", "inputnode.orig_ts") >>
             \o ConnSink

\* the argument of func_preproc.connect, lines 124-186
Connections == ConnInfo \o ConnPreproc \o ConnSink

\* the graph built so far
graph == SubSeq(Connections, 1, nconn)

\* the input ports that are given a static value (lines 68-69, 78, 86-89, 93,
\* 97-100, 103-120)
StaticInputs ==
    { <<"selectfiles", "base_directory">>,
      <<"remove_vol", "t_min">>,
      <<"fmap_coreg", "inputnode.fs_subjects_dir">>,
      <<"fmap_coreg", "inputnode.fs_subject_id">>,
      <<"fmap_coreg", "inputnode.echo_space">>,
      <<"fmap_coreg", "inputnode.te_diff">>,
      <<"transform_ts", "inputnode.resolution">>,
      <<"denoise", "inputnode.highpass_sigma">>,
      <<"denoise", "inputnode.lowpass_sigma">>,
      <<"denoise", "inputnode.tr">>,
      <<"sink", "parameterization">>,
      <<"sink", "base_directory">>,
      <<"sink", "substitutions">> }

-----------------------------------------------------------------------------
(* The node computations *)

\* the scan ids the scans argument is drawn from: the four scans of the
\* study and one id fmap_info has no branch for
ScanIds == { "rest1a", "rest1b", "rest2a", "rest2b", "rest3a" }

\* the outcome of a function that raised
Raises(e) == [raises |-> e]
Raised(r) == "raises" \in DOMAIN r

\* fmap_info with the second scan of session 1 given the direction of the first
fmap_infoSamePe(scan_id) ==
    IF scan_id = "rest1a" THEN [fmap_id |-> "fmap1", pe_dir |-> "y-"]
    ELSE IF scan_id = "rest1b" THEN [fmap_id |-> "fmap1", pe_dir |-> "y-"]
    ELSE IF scan_id = "rest2a" THEN [fmap_id |-> "fmap2", pe_dir |-> "y-"]
    ELSE IF scan_id = "rest2b" THEN [fmap_id |-> "fmap2", pe_dir |-> "y"]
    ELSE Raises("UnboundLocalError")

\* fmap_info with a final else branch instead of the last elif
fmap_infoElse(scan_id) ==
    IF scan_id = "rest1a" THEN [fmap_id |-> "fmap1", pe_dir |-> "y-"]
    ELSE IF scan_id = "rest1b" THEN [fmap_id |-> "fmap1", pe_dir |-> "y"]
    ELSE IF scan_id = "rest2a" THEN [fmap_id |-> "fmap2", pe_dir |-> "y-"]
    ELSE [fmap_id |-> "fmap2", pe_dir |-> "y"]

\* fmap_info: no branch assigns fmap_id and pe_dir for any other scan_id, and
\* the return statement then raises UnboundLocalError
fmap_info(scan_id) ==
    IF scan_id = "rest1a" THEN [fmap_id |-> "fmap1", pe_dir |-> "y-"]
    ELSE IF scan_id = "rest1b" THEN [fmap_id |-> "fmap1", pe_dir |-> "y"]
    ELSE IF scan_id = "rest2a" THEN [fmap_id |-> "fmap2", pe_dir |-> "y-"]
    ELSE IF scan_id = "rest2b" THEN [fmap_id |-> "fmap2", pe_dir |-> "y"]
    ELSE Raises("UnboundLocalError")

\* the templates of selectfiles, each with the field it is formatted with
Templates ==
    [ func       |-> [template |-> "nifti/lsd_resting/{scan_id}.nii.gz", field |-> "scan_id"],
      fmap_phase |-> [template |-> "nifti/lsd_resting/{fmap_id}_phase.nii.gz", field |-> "fmap_id"],
      fmap_mag   |-> [template |-> "nifti/lsd_resting/{fmap_id}_mag.nii.gz", field |-> "fmap_id"],
      anat_head  |-> [template |-> "preprocessed/anat/T1.nii.gz", field |-> "-"],
      anat_brain |-> [template |-> "preprocessed/anat/T1_brain.nii.gz", field |-> "-"],
      func_mask  |-> [template |-> "preprocessed/anat/func_mask.nii.gz", field |-> "-"] ]

\* the value of an input port, Undefined when nothing was bound to it
Get(in, port) == IF port \in DOMAIN in THEN in[port] ELSE Undefined

\* the substitutions of the sink, on the names the model gives to files
Substitute(name) ==
    CASE name = "fmap1_phase_fslprepared" -> "fieldmap"
      [] name = "fmap2_phase_fslprepared" -> "fieldmap"
      [] name = "fieldmap_fslprepared_fieldmap_unmasked_vsm" -> "shiftmap"
      [] name = "plot.rest_coregistered" -> "outlier_plot"
      [] name = "filter_motion_comp_norm_compcor_art_dmotion" -> "nuissance_matrix"
      [] name = "rest_realigned.nii.gz_abs.rms" -> "rest_realigned_abs.rms"
      [] name = "rest_realigned.nii.gz.par" -> "rest_realigned.par"
      [] name = "rest_realigned.nii.gz_rel.rms" -> "rest_realigned_rel.rms"
      [] name = "rest_realigned.nii.gz_abs_disp" -> "abs_displacement_plot"
      [] name = "rest_realigned.nii.gz_rel_disp" -> "rel_displacment_plot"
      [] name = "art.rest_coregistered_outliers" -> "outliers"
      [] name = "global_intensity.rest_coregistered" -> "global_intensity"
      [] name = "norm.rest_coregistered" -> "composite_norm"
      [] name = "stats.rest_coregistered" -> "stats"
      [] name = "rest_denoised_bandpassed_norm.nii.gz" -> "rest_preprocessed.nii.gz"
      [] OTHER -> name

\* the folder below the container a sink input is stored in: the part of
\* the input's name before its last component
Folder(port) ==
    CASE port \in { "realign.@par", "realign.@rms", "realign.@mean", "realign.@tsnr" }
            -> "realign"
      [] port = "realign.MAT.@mat" -> "realign/MAT"
      [] port \in { "realign.plots.@rotplot", "realign.plots.@transplot",
                    "realign.plots.@dispplots" } -> "realign/plots"
      [] port \in { "coregister.transforms2anat.@fmap",
                    "coregister.transforms2anat.@fmap_fullwarp",
                    "coregister.transforms2anat.@epi2anat_mat",
                    "coregister.transforms2anat.@epi2anat_dat" }
            -> "coregister/transforms2anat"
      [] port \in { "coregister.@unwarped_mean_epi2fmap", "coregister.@epi2fmap",
                    "coregister.@epi2anat", "coregister.@epi2anat_mincost",
                    "coregister.@full_transform_mean", "coregister.@resamp_brain" }
            -> "coregister"
      [] port \in { "denoise.mask.@wmcsf_masks", "denoise.mask.@brain_resamp",
                    "denoise.mask.@brain_mask2epi" } -> "denoise/mask"
      [] port \in { "denoise.artefact.@combined_motion", "denoise.artefact.@outlier",
                    "denoise.artefact.@intensity", "denoise.artefact.@outlierstats",
                    "denoise.artefact.@outlierplots" } -> "denoise/artefact"
      [] port \in { "denoise.regress.@mc_regressor", "denoise.regress.@comp_regressor",
                    "denoise.regress.@mc_F", "denoise.regress.@mc_pF",
                    "denoise.regress.@comp_F", "denoise.regress.@comp_pF" }
            -> "denoise/regress"
      [] OTHER -> ""

\* where the sink puts a file: out_dir/container/folder/substituted name
\* (parameterization=False: no iteration folder is added)
DestPath(container, port, name) ==
    << "out_dir", container, Folder(port), Substitute(name) >>

-----------------------------------------------------------------------------
(* Expansion of the iterable and the run of the expanded graph *)

RECURSIVE ReachFrom(_, _)
ReachFrom(g, S) ==
    LET next == S \cup { g[i].dst : i \in { j \in DOMAIN g : g[j].src \in S } }
    IN  IF next = S THEN S ELSE ReachFrom(g, next)

\* the nodes that are cloned once per value: the iterable source and every
\* node reachable from it (the graph has no join node)
Iterated(g) == ReachFrom(g, {IterSource})

\* clone identity = <<node name, value>>; a node the iterable does not reach
\* is kept once
Clones(g, values) ==
    LET it == Iterated(g)
    IN  { <<n, s>> : n \in it, s \in values } \cup { <<n, NoIter>> : n \in Nodes \ it }

\* the clone of node n that clone c is connected to: the one of the same value
Peer(it, n, c) == IF n \in it THEN <<n, c[2]>> ELSE <<n, NoIter>>

\* the clones that c has an incoming connection from in the expanded graph
Upstream(g, c) ==
    LET it == Iterated(g)
    IN  { Peer(it, g[i].src, c) : i \in { j \in DOMAIN g : g[j].dst = c[1] } }

\* the clones that transitively consume from the clones in S (S included),
\* up being the direct connections of the expanded graph
RECURSIVE Dependents(_, _)
Dependents(up, S) ==
    LET next == S \cup { d \in DOMAIN up : up[d] \cap S # {} }
    IN  IF next = S THEN S ELSE Dependents(up, next)

\* the working directory of a clone: base_dir/<workflow>/<iteration>/<node>
WorkDir(c) ==
    [ base |-> "working_dir", workflow |-> "lsd_resting", iteration |-> c[2], node |-> c[1] ]

OutPorts(g, n) == { g[i].srcPort : i \in { j \in DOMAIN g : g[j].src = n } }

\* the name of the file fsl_prepare_fieldmap derives from the phase image
Prepared(phase_file) ==
    CASE phase_file.value = "fmap1" -> "fmap1_phase_fslprepared"
      [] phase_file.value = "fmap2" -> "fmap2_phase_fslprepared"
      [] OTHER -> "phase_fslprepared"

\* the base name of the file a tool leaves on an output port: it does not
\* depend on the scan (every scan is processed under the same names)
BaseName(n, port, in) ==
    IF n = "fmap_coreg" /\ port = "outputnode.fmap" /\ "inputnode.phase" \in DOMAIN in
    THEN Prepared(in["inputnode.phase"])
    ELSE port

\* the inputs of clone c resolved from the outputs of its producers (which
\* do not change once published)
Resolve(g, c) ==
    LET it == Iterated(g)
        into == { i \in DOMAIN g : g[i].dst = c[1] }
    IN  [ port \in { g[i].dstPort : i \in into } |->
            LET i == CHOOSE j \in into : g[j].dstPort = port
            IN  Get(outputs[Peer(it, g[i].src, c)], g[i].srcPort) ]

\* the outputs a clone produces from its resolved inputs
Compute(g, c, in) ==
    CASE c[1] = "scan_infosource" -> [ scan_id |-> c[2] ]
      [] c[1] = "fmap_infosource" -> fmap_info(Get(in, "scan_id"))
      [] c[1] = "selectfiles" ->
            [ k \in DOMAIN Templates |->
                [ template |-> Templates[k].template,
                  value |-> IF Templates[k].field = "-" THEN "-"
                            ELSE Get(in, Templates[k].field) ] ]
      [] c[1] = "sink" -> [ out_file |-> "out_dir" ]
      [] OTHER -> [ port \in OutPorts(g, c[1]) |-> BaseName(c[1], port, in) ]

\* what the sink clone c stores: one file per connected input but container
Stored(c, in) ==
    { [ path |-> DestPath(Get(in, "container"), port, in[port]), scan |-> c[2] ] :
        port \in DOMAIN in \ {"container"} }

NoFunction == [ x \in {} |-> x ]

WfIdle ==
    /\ phase = "off"
    /\ scans = {}
    /\ nconn = 0
    /\ upstream = NoFunction
    /\ dependents = NoFunction
    /\ status = NoFunction
    /\ started = {}
    /\ consumed = NoFunction
    /\ outputs = NoFunction
    /\ sinkFiles = {}

NoArray == [ shape |-> << >>, fortran |-> FALSE, buf |-> << >> ]

MaskIdle ==
    /\ mpc = "off"
    /\ lhvertices = << >>
    /\ rhvertices = << >>
    /\ hemi = ""
    /\ shape = << >>
    /\ order = "C"
    /\ data = [ shape |-> << >>, fortran |-> FALSE ]
    /\ mask = NoArray
    /\ chosen = << >>
    /\ vi = 0
    /\ merror = "none"
    /\ files = {}
    /\ moutputs = NoFunction

\* create_lsd_resting is called with a list of pairwise distinct scan ids
Init ==
    /\ phase = "build"
    /\ scans \in { S \in SUBSET ScanIds : Cardinality(S) <= MaxScans }
    /\ nconn = 0
    /\ upstream = NoFunction
    /\ dependents = NoFunction
    /\ status = NoFunction
    /\ started = {}
    /\ consumed = NoFunction
    /\ outputs = NoFunction
    /\ sinkFiles = {}
    /\ MaskIdle

\* func_preproc.connect([...])
Connect ==
    /\ phase = "build"
    /\ nconn' = Len(Connections)
    /\ phase' = "expand"
    /\ UNCHANGED <<scans, upstream, dependents, status, started, consumed, outputs, sinkFiles>>
    /\ UNCHANGED maskVars

\* func_preproc.run(), first step: one clone per node and iterable value
Expand ==
    /\ phase = "expand"
    /\ LET all == Clones(graph, scans)
           up == [ c \in all |-> Upstream(graph, c) ]
       IN  /\ upstream' = up
           /\ dependents' = [ c \in all |-> Dependents(up, {c}) \ {c} ]
           /\ status' = [ c \in all |-> "Pending" ]
           /\ consumed' = [ c \in all |-> {} ]
           /\ outputs' = [ c \in all |-> NoFunction ]
    /\ phase' = "run"
    /\ UNCHANGED <<scans, nconn, started, sinkFiles>>
    /\ UNCHANGED maskVars

Running == { c \in DOMAIN status : status[c] = "Running" }

\* a pending clone is started once every clone it consumes from has completed
Start(c) ==
    /\ phase = "run"
    /\ status[c] = "Pending"
    /\ \A p \in upstream[c] : status[p] = "Completed"
    /\ Cardinality(Running) < MaxWorkers
    /\ status' = [status EXCEPT ![c] = "Running"]
    /\ started' = started \cup {c}
    /\ consumed' = [consumed EXCEPT ![c] = upstream[c]]
    /\ UNCHANGED <<phase, scans, nconn, upstream, dependents, outputs, sinkFiles>>
    /\ UNCHANGED maskVars

\* a running clone completes: its outputs are published, the sink stores
Complete(c) ==
    /\ phase = "run"
    /\ status[c] = "Running"
    /\ LET in == Resolve(graph, c)
           out == Compute(graph, c, in)
       IN  /\ ~Raised(out)
           /\ outputs' = [outputs EXCEPT ![c] = out]
           /\ sinkFiles' = IF c[1] = "sink" THEN sinkFiles \cup Stored(c, in) ELSE sinkFiles
    /\ status' = [status EXCEPT ![c] = "Completed"]
    /\ UNCHANGED <<phase, scans, nconn, upstream, dependents, started, consumed>>
    /\ UNCHANGED maskVars

\* a running clone fails (its function raises, or its tool exits with an
\* error): it and every clone that depends on it are taken out of the run
Crash(c) ==
    /\ phase = "run"
    /\ status[c] = "Running"
    /\ status' = [ d \in DOMAIN status |->
                     IF d = c THEN "Failed"
                     ELSE IF d \in dependents[c] THEN "Blocked"
                     ELSE status[d] ]
    /\ UNCHANGED <<phase, scans, nconn, upstream, dependents, started, consumed, outputs, sinkFiles>>
    /\ UNCHANGED maskVars

\* run() returns when no clone is pending or running
Finish ==
    /\ phase = "run"
    /\ \A c \in DOMAIN status : status[c] \in {"Completed", "Failed", "Blocked"}
    /\ phase' = "done"
    /\ UNCHANGED <<scans, nconn, upstream, dependents, status, started, consumed, outputs, sinkFiles>>
    /\ UNCHANGED maskVars

Next ==
    \/ Connect
    \/ Expand
    \/ \E c \in DOMAIN status : Start(c)
    \/ \E c \in DOMAIN status : Complete(c)
    \/ \E c \in DOMAIN status : Crash(c)
    \/ Finish

Spec == Init /\ [][Next]_vars

-----------------------------------------------------------------------------
(* Properties of the workflow *)

KnownScans == { "rest1a", "rest1b", "rest2a", "rest2b" }

ClonesOf(s) == { c \in DOMAIN status : c[2] = s }

\* C3: in the graph as built the sink's container is connected from the
\* iterated scan_id and the sink is cloned per scan (no join node precedes
\* it); and when the run has ended no two files stored by the sink clones of
\* different scans have the same destination path
C3_NoCrossScanOverwrite ==
    /\ phase = "expand" =>
          /\ \E i \in DOMAIN graph :
                graph[i] = Conn(IterSource, "scan_id", "sink", "container")
          /\ "sink" \in Iterated(graph)
    /\ phase = "done" =>
          \A f \in sinkFiles : \A g \in sinkFiles : f.scan # g.scan => f.path # g.path

\* both scans of session 1 have stored their fieldmap, both renamed 'fieldmap'
C3_Witness ==
    /\ phase = "done"
    /\ \E f \in sinkFiles : f.scan = "rest1a" /\ f.path[4] = "fieldmap"
    /\ \E f \in sinkFiles : f.scan = "rest1b" /\ f.path[4] = "fieldmap"

\* the producers each node waits for, as listed in claim C5
ClaimedUpstream ==
    [ scan_infosource |-> {},
      fmap_infosource |-> { "scan_infosource" },
      selectfiles     |-> { "scan_infosource", "fmap_infosource" },
      remove_vol      |-> { "selectfiles" },
      moco            |-> { "remove_vol" },
      fmap_coreg      |-> { "fmap_infosource", "selectfiles", "moco" },
      transform_ts    |-> { "remove_vol", "selectfiles", "moco", "fmap_coreg" },
      denoise         |-> { "selectfiles", "fmap_coreg", "moco", "transform_ts" },
      sink            |-> { "scan_infosource", "moco", "fmap_coreg", "transform_ts", "denoise" } ]

RECURSIVE ClaimedConsumers(_)
ClaimedConsumers(S) ==
    LET next == S \cup { n \in Nodes : ClaimedUpstream[n] \cap S # {} }
    IN  IF next = S THEN S ELSE ClaimedConsumers(next)

Failed == { c \in DOMAIN status : status[c] = "Failed" }

\* C4: before the run has ended some clone is running or can be started (the
\* run does not get stuck), and when it has ended
\* with exactly one failed clone (N, s), every clone of scan s that
\* transitively consumes from N is Blocked and was never started, and every
\* other clone is Completed
C4_FailurePropagation ==
    /\ phase = "run" =>
          \/ Running # {}
          \/ \E c \in DOMAIN status :
                status[c] = "Pending" /\ \A p \in upstream[c] : status[p] = "Completed"
          \/ \A c \in DOMAIN status : status[c] \in {"Completed", "Failed", "Blocked"}
    /\ (phase = "done" /\ Cardinality(Failed) = 1) =>
          \A f \in Failed : \A c \in DOMAIN status \ {f} :
              IF c[2] = f[2] /\ c[1] \in ClaimedConsumers({f[1]})
              THEN status[c] = "Blocked" /\ c \notin started
              ELSE status[c] = "Completed"

\* the run ended with one failure in the middle of a scan while another
\* scan went through to its sink
C4_Witness ==
    /\ phase = "done"
    /\ Failed = { <<"moco", "rest1a">> }
    /\ status[<<"sink", "rest1a">>] = "Blocked"
    /\ <<"sink", "rest1b">> \in DOMAIN status
    /\ status[<<"sink", "rest1b">>] = "Completed"

\* C5: every clone is connected from exactly the nodes of claim C5's list,
\* and a clone that was started has each of them Completed for the same scan
C5_StartAfterUpstream ==
    /\ \A c \in DOMAIN status :
          upstream[c] = { <<n, c[2]>> : n \in ClaimedUpstream[c[1]] }
    /\ \A c \in started : \A n \in ClaimedUpstream[c[1]] :
          /\ <<n, c[2]>> \in DOMAIN status
          /\ status[<<n, c[2]>>] = "Completed"

\* two clones of different scans run at the same time, one of them a sink
C5_Witness ==
    \E c, d \in Running : c[2] # d[2] /\ c[1] = "sink" /\ d[1] = "fmap_coreg"

\* C6: when the run has ended, each node has had exactly one clone per scan
\* id, distinct clones have distinct working directories, and every clone is
\* connected to, and has consumed from, clones of its own scan only
C6_ClonesPerScan ==
    phase = "done" =>
        /\ \A n \in Nodes : { c[2] : c \in { d \in DOMAIN status : d[1] = n } } = scans
        /\ Cardinality(DOMAIN status) = Cardinality(Nodes) * Cardinality(scans)
        /\ \A c, d \in DOMAIN status : c # d => WorkDir(c) # WorkDir(d)
        /\ \A c \in DOMAIN status :
              /\ \A p \in upstream[c] : p[2] = c[2]
              /\ \A p \in consumed[c] : p[2] = c[2]

\* two scans, and the sink of one of them has consumed its inputs
C6_Witness ==
    /\ phase = "done"
    /\ Cardinality(scans) = 2
    /\ \E c \in started : c[1] = "sink" /\ Cardinality(consumed[c]) = 5

PortsBound(g) == { <<g[i].dst, g[i].dstPort>> : i \in DOMAIN g }

\* C7: in the graph as built, no input port is the target of two connections
\* and no connected input port has a static value
C7_PortsBoundOnce ==
    phase = "expand" =>
        LET g == graph
        IN  /\ \A i, j \in DOMAIN g :
                  (g[i].dst = g[j].dst /\ g[i].dstPort = g[j].dstPort) => i = j
            /\ PortsBound(g) \cap StaticInputs = {}

\* the whole connection list has been made
C7_Witness ==
    /\ phase = "expand"
    /\ Len(graph) = 55
    /\ <<"sink", "container">> \in PortsBound(graph)

\* the table of claim C8
ClaimedFmap ==
    [ rest1a |-> [fmap_id |-> "fmap1", pe_dir |-> "y-"],
      rest1b |-> [fmap_id |-> "fmap1", pe_dir |-> "y"],
      rest2a |-> [fmap_id |-> "fmap2", pe_dir |-> "y-"],
      rest2b |-> [fmap_id |-> "fmap2", pe_dir |-> "y"] ]

Session(s) == IF s \in {"rest1a", "rest1b"} THEN 1 ELSE 2

\* C8: a completed fmap_infosource clone of a known scan holds the pair of
\* the table; two scans of one session share the fieldmap id and differ in
\* the phase-encode direction
C8_FmapInfo ==
    /\ \A s \in KnownScans :
          (<<"fmap_infosource", s>> \in DOMAIN status
              /\ status[<<"fmap_infosource", s>>] = "Completed")
          => outputs[<<"fmap_infosource", s>>] = ClaimedFmap[s]
    /\ \A s, u \in KnownScans :
          (s # u /\ Session(s) = Session(u)) =>
              /\ fmap_info(s).fmap_id = fmap_info(u).fmap_id
              /\ fmap_info(s).pe_dir # fmap_info(u).pe_dir

\* both scans of session 1 have their fieldmap information
C8_Witness ==
    /\ <<"fmap_infosource", "rest1a">> \in DOMAIN status
    /\ <<"fmap_infosource", "rest1b">> \in DOMAIN status
    /\ status[<<"fmap_infosource", "rest1a">>] = "Completed"
    /\ status[<<"fmap_infosource", "rest1b">>] = "Completed"

\* C10: for a scan id fmap_info has no branch for, fmap_infosource never
\* completes and has no outputs, selectfiles and fmap_coreg are never
\* started, the sink stores nothing; the clones of a known scan all complete
\* when none of them failed
C10_UnknownScan ==
    /\ \A s \in scans \ KnownScans :
          /\ \A c \in ClonesOf(s) :
                /\ c[1] = "fmap_infosource" =>
                      (status[c] # "Completed" /\ outputs[c] = NoFunction)
                /\ c[1] \in {"selectfiles", "fmap_coreg", "sink"} => c \notin started
          /\ \A f \in sinkFiles : f.scan # s
          /\ (phase = "done" /\ status[<<"scan_infosource", s>>] = "Completed") =>
                /\ status[<<"fmap_infosource", s>>] = "Failed"
                /\ status[<<"sink", s>>] = "Blocked"
    /\ \A s \in scans \cap KnownScans :
          (phase = "done" /\ \A c \in ClonesOf(s) : status[c] # "Failed")
              => \A c \in ClonesOf(s) : status[c] = "Completed"

\* the run ended: the unknown scan failed at fmap_infosource, the known scan
\* was stored
C10_Witness ==
    /\ phase = "done"
    /\ scans = {"rest2b", "rest3a"}
    /\ status[<<"fmap_infosource", "rest3a">>] = "Failed"
    /\ status[<<"sink", "rest2b">>] = "Completed"
    /\ \E f \in sinkFiles : f.scan = "rest2b"

-----------------------------------------------------------------------------
(* MaskSurface: arrays *)

\* An array is its shape, its buffer in memory order, and whether it is
\* Fortran-contiguous only (column-major strides); indices are 0-based.

Size(s) == s[1] * s[2] * s[3] * s[4]

\* the position in the buffer of element idx of an array of shape s
Offset(s, idx, fortran) ==
    IF fortran
    THEN idx[1] + s[1] * (idx[2] + s[2] * (idx[3] + s[3] * idx[4]))
    ELSE ((idx[1] * s[2] + idx[2]) * s[3] + idx[3]) * s[4] + idx[4]

At(a, idx) == a.buf[Offset(a.shape, idx, a.fortran) + 1]

NonUnit(s) == Cardinality({ i \in DOMAIN s : s[i] > 1 })

\* the layouts an array with column-major strides can be flagged with: an
\* array with at most one axis longer than 1 is also C-contiguous under
\* relaxed stride checking, and then counts as row-major
FortranFlags(columnMajor, s) ==
    IF ~columnMajor THEN {FALSE}
    ELSE IF NonUnit(s) >= 2 THEN {TRUE}
    ELSE {TRUE, FALSE}

\* ndarray.resize on the buffer: cut, or filled up with zeros
ResizeBuf(buf, n) ==
    [ i \in 1..n |-> IF i <= Len(buf) THEN buf[i] ELSE 0 ]

\* mask[vertex][:] = 1 written to a single time point only
SetVertexFirstOnly(a, vertex) ==
    [ a EXCEPT !.buf = [ i \in DOMAIN a.buf |->
        IF i = Offset(a.shape, <<vertex, 0, 0, 0>>, a.fortran) + 1 THEN 1 ELSE a.buf[i] ] ]

\* mask[vertex][:] = 1: every element whose first index is vertex
SetVertex(a, vertex) ==
    [ a EXCEPT !.buf = [ i \in DOMAIN a.buf |->
        IF \E j \in 0..(a.shape[2] - 1), k \in 0..(a.shape[3] - 1), l \in 0..(a.shape[4] - 1) :
              i = Offset(a.shape, <<vertex, j, k, l>>, a.fortran) + 1
        THEN 1 ELSE a.buf[i] ] ]

RECURSIVE SortedSeq(_)
SortedSeq(S) ==
    IF S = {} THEN << >>
    ELSE LET m == CHOOSE x \in S : \A y \in S : x <= y
         IN  <<m>> \o SortedSeq(S \ {m})

Unbound == [ bound |-> FALSE, seq |-> << >> ]
Bound(seq) == [ bound |-> TRUE, seq |-> seq ]

\* lines 31-32: chosenvertices is assigned for 'lh' and for 'rh' only
ChosenVertices(h, lh, rh) ==
    IF h = "lh" THEN Bound(lh)
    ELSE IF h = "rh" THEN Bound(rh)
    ELSE Unbound

-----------------------------------------------------------------------------
(* MaskSurface: _run_interface and _list_outputs *)

Shapes == (1..MaxX) \X (1..MaxY) \X (1..MaxZ) \X (1..MaxT)

\* The node is run on an image of any shape and layout, with any hemi string;
\* the two vertex tables split the indices 0..MaxVertex between them. The
\* loaded array owns its buffer, so that resize is allowed to change its size.
MaskInit ==
    /\ WfIdle
    /\ mpc = "load"
    /\ \E A \in SUBSET (0..MaxVertex) :
          /\ lhvertices = SortedSeq(A)
          /\ rhvertices = SortedSeq((0..MaxVertex) \ A)
    /\ hemi \in { "lh", "rh", "xx" }
    /\ shape \in Shapes
    /\ order \in { "C", "F" }
    /\ data = [ shape |-> << >>, fortran |-> FALSE ]
    /\ mask = NoArray
    /\ chosen = Unbound
    /\ vi = 0
    /\ merror = "none"
    /\ files = {}
    /\ moutputs = NoFunction

inputVars == <<lhvertices, rhvertices, hemi, shape, order>>

\* lines 26-28: data = nb.load(sxfmout).get_data(); origdata = data.shape
Load ==
    /\ mpc = "load"
    /\ \E f \in FortranFlags(order = "F", shape) :
          data' = [ shape |-> shape, fortran |-> f ]
    /\ mpc' = "resize"
    /\ UNCHANGED <<inputVars, mask, chosen, vi, merror, files, moutputs>>
    /\ UNCHANGED wfVars

NewShape == << shape[1] * shape[3], 1, 1, shape[4] >>

\* line 29: data.resize(X*Z, 1, 1, T); the strides are filled again in the
\* order the array is flagged with
ResizeData ==
    /\ mpc = "resize"
    /\ \E f \in FortranFlags(data.fortran, NewShape) :
          data' = [ shape |-> NewShape, fortran |-> f ]
    /\ mpc' = "zeros"
    /\ UNCHANGED <<inputVars, mask, chosen, vi, merror, files, moutputs>>
    /\ UNCHANGED wfVars

\* line 30: mask = np.zeros_like(data)
ZerosLike ==
    /\ mpc = "zeros"
    /\ mask' = [ shape |-> data.shape, fortran |-> data.fortran,
                 buf |-> [ i \in 1..Size(data.shape) |-> 0 ] ]
    /\ mpc' = "choose"
    /\ UNCHANGED <<inputVars, data, chosen, vi, merror, files, moutputs>>
    /\ UNCHANGED wfVars

\* lines 31-32
Choose ==
    /\ mpc = "choose"
    /\ chosen' = ChosenVertices(hemi, lhvertices, rhvertices)
    /\ mpc' = "for"
    /\ UNCHANGED <<inputVars, data, mask, vi, merror, files, moutputs>>
    /\ UNCHANGED wfVars

\* line 33 when neither if statement assigned chosenvertices
ForUnbound ==
    /\ mpc = "for"
    /\ ~chosen.bound
    /\ merror' = "UnboundLocalError"
    /\ mpc' = "raised"
    /\ UNCHANGED <<inputVars, data, mask, chosen, vi, files, moutputs>>
    /\ UNCHANGED wfVars

\* lines 33-34, one vertex of the table
ForBody ==
    /\ mpc = "for"
    /\ chosen.bound
    /\ vi < Len(chosen.seq)
    /\ chosen.seq[vi + 1] < mask.shape[1]
    /\ mask' = SetVertex(mask, chosen.seq[vi + 1])
    /\ vi' = vi + 1
    /\ UNCHANGED <<inputVars, mpc, data, chosen, merror, files, moutputs>>
    /\ UNCHANGED wfVars

\* line 34 on a vertex beyond the first axis of mask
ForIndexError ==
    /\ mpc = "for"
    /\ chosen.bound
    /\ vi < Len(chosen.seq)
    /\ chosen.seq[vi + 1] >= mask.shape[1]
    /\ merror' = "IndexError"
    /\ mpc' = "raised"
    /\ UNCHANGED <<inputVars, data, mask, chosen, vi, files, moutputs>>
    /\ UNCHANGED wfVars

\* line 35: mask.resize(origdata), after the last vertex
ResizeMask ==
    /\ mpc = "for"
    /\ chosen.bound
    /\ vi = Len(chosen.seq)
    /\ \E f \in FortranFlags(mask.fortran, shape) :
          mask' = [ shape |-> shape, fortran |-> f, buf |-> ResizeBuf(mask.buf, Size(shape)) ]
    /\ mpc' = "save"
    /\ UNCHANGED <<inputVars, data, chosen, vi, merror, files, moutputs>>
    /\ UNCHANGED wfVars

\* lines 36-39: the mask is saved as surfacemask.nii
Save ==
    /\ mpc = "save"
    /\ files' = files \cup { [ name |-> "surfacemask.nii", image |-> mask ] }
    /\ mpc' = "ran"
    /\ UNCHANGED <<inputVars, data, mask, chosen, vi, merror, moutputs>>
    /\ UNCHANGED wfVars

\* _list_outputs after a run that did not raise: the dictionary of the
\* declared outputs (surface_mask, undefined), in which the key
\* "mask_surface" is set
ListOutputs ==
    /\ mpc = "ran"
    /\ moutputs' = [ k \in { "surface_mask", "mask_surface" } |->
                       IF k = "mask_surface" THEN "surfacemask.nii" ELSE Undefined ]
    /\ mpc' = "listed"
    /\ UNCHANGED <<inputVars, data, mask, chosen, vi, merror, files>>
    /\ UNCHANGED wfVars

MaskNext ==
    \/ Load
    \/ ResizeData
    \/ ZerosLike
    \/ Choose
    \/ ForUnbound
    \/ ForBody
    \/ ForIndexError
    \/ ResizeMask
    \/ Save
    \/ ListOutputs

MaskSpec == MaskInit /\ [][MaskNext]_vars

-----------------------------------------------------------------------------
(* Properties of MaskSurface *)

SeqSet(s) == { s[i] : i \in DOMAIN s }

\* the vertex table of hemisphere h
Table(h) == IF h = "lh" THEN SeqSet(lhvertices) ELSE SeqSet(rhvertices)

\* the image saved as surfacemask.nii is binary, has the shape of the input
\* and is 1 exactly at the voxels (x, y, z, t) whose row-major vertex index
\* x*Z + z is in the table of hemi
RowMajorMask(image) ==
    /\ image.shape = shape
    /\ Len(image.buf) = Size(shape)
    /\ \A i \in DOMAIN image.buf : image.buf[i] \in {0, 1}
    /\ \A x \in 0..(shape[1] - 1), y \in 0..(shape[2] - 1),
          z \in 0..(shape[3] - 1), t \in 0..(shape[4] - 1) :
          At(image, <<x, y, z, t>>) = 1 <=> (x * shape[3] + z) \in Table(hemi)

\* C1: with a hemi other than 'lh' and 'rh' the run fails with
\* UnsupportedHemisphereError and writes no mask file
C1_UnsupportedHemisphere ==
    hemi \notin { "lh", "rh" } =>
        /\ mpc \notin { "ran", "listed" }
        /\ files = {}
        /\ mpc = "raised" => merror = "UnsupportedHemisphereError"

\* C2 as claimed: for every shape (X, Y, Z, T), when the table of hemi holds
\* only indices below X*Z, the mask written is the row-major mask of the table
C2_MaskOfTableAnyVolume ==
    (mpc \in { "ran", "listed" } /\ hemi \in { "lh", "rh" }
        /\ \A v \in Table(hemi) : v < shape[1] * shape[3])
    => \A f \in files : RowMajorMask(f.image)

\* C2, amended: for a volume of shape (X, 1, Z, T) loaded as a C-contiguous
\* (row-major) array, when the table of hemi holds only indices below X*Z,
\* the run does not raise and the mask written is the row-major mask of the
\* table
C2_MaskOfTable ==
    (hemi \in { "lh", "rh" } /\ shape[2] = 1 /\ order = "C"
        /\ \A v \in Table(hemi) : v < shape[1] * shape[3])
    => /\ merror = "none"
       /\ mpc \in { "ran", "listed" } =>
             /\ files # {}
             /\ \A f \in files : f.name = "surfacemask.nii" /\ RowMajorMask(f.image)

\* a 2 x 1 x 2 x 2 row-major volume masked with a table of two of its four
\* vertices
C2_Witness ==
    /\ mpc = "ran"
    /\ hemi = "lh"
    /\ order = "C"
    /\ shape = <<2, 1, 2, 2>>
    /\ lhvertices = <<1, 2>>
    /\ \E f \in files : At(f.image, <<0, 0, 1, 1>>) = 1 /\ At(f.image, <<1, 0, 1, 0>>) = 0

\* C9: after a successful run the output port surface_mask holds the path of
\* the mask file that was written
C9_SurfaceMaskOutput ==
    mpc = "listed" =>
        /\ "surface_mask" \in DOMAIN moutputs
        /\ moutputs["surface_mask"] = "surfacemask.nii"
        /\ \E f \in files : f.name = moutputs["surface_mask"]

====
